---- MODULE Spec2Model ----
(***************************************************************************)
(* A model of the mqtt-viewer relay.                                       *)
(*                                                                         *)
(*   src/index.js            the relay: the broker 'message' handler that  *)
(*                           decodes a message and broadcasts 'mqtt-event',*)
(*                           and the per-socket 'republish-mqtt' handler.  *)
(*   src/unnamed/part_001    ticket-utils.js: findTicketId, getTicketColor.*)
(*   src/unnamed/part_000    an earlier copy of the relay without the      *)
(*                           republish bridge (same 'message' handler).    *)
(*                                                                         *)
(* Five specifications share the variables:                                *)
(*   Spec          ingestion: broker messages, the clock, viewers that     *)
(*                 connect and disconnect;                                 *)
(*   BridgeSpec    the republish bridge: requests of the viewers, broker   *)
(*                 acknowledgments, interleaved with ingestion;            *)
(*   LiveSpec      ingestion with the broker stream queued in front of the *)
(*                 handler, under weak fairness of the dispatch;           *)
(*   ResolverSpec  findTicketId / getTicketColor applied to a bounded set  *)
(*                 of JSON documents;                                      *)
(*   ColorSpec     a sequence of getTicketColor calls.                     *)
(***************************************************************************)
EXTENDS Integers, Sequences, FiniteSets, TLC

VARIABLES
    running,     \* the node process is alive
    escaped,     \* the handler out of which an exception escaped, or "none"
    clock,       \* Date.now()
    socket,      \* per viewer: its socket is "none" (not yet connected), "open" or "closed"
    arrived,     \* the broker messages handed to the 'message' handler, in order
    emitted,     \* the records given to io.emit("mqtt-event", ...), in order
    inbox,       \* per viewer: the 'mqtt-event' records emitted to it, in order
    requests,    \* the 'republish-mqtt' requests handled so far, in order
    pending,     \* publish callbacks the broker client still has to invoke
    published,   \* the client.publish(topic, message) calls made, in order
    results,     \* per viewer: the 'republish-result' records emitted on its socket
    doc,         \* ResolverSpec: the JSON document, keys in declared order
    maxDepth,    \* ResolverSpec: the maxDepth of the last findTicketId call, or -1
    found,       \* ResolverSpec: the outcome of the last findTicketId call
    color,       \* ResolverSpec: getTicketColor of the id found
    incoming,    \* LiveSpec: broker messages received, not yet handed to the handler
    calls        \* ColorSpec: the getTicketColor calls made, <<argument, result>>, in order

vars == <<running, escaped, clock, socket, arrived, emitted, inbox, requests,
          pending, published, results, doc, maxDepth, found, color, incoming, calls>>

relayVars == <<running, escaped, clock, socket, arrived, emitted, inbox, requests,
               pending, published, results>>

resolverVars == <<doc, maxDepth, found, color, calls>>

-----------------------------------------------------------------------------
(* Bounds of the model.                                                    *)

MaxKeys == 2          \* keys of the root object of a document
MaxNest == 2          \* levels a ticket field is wrapped below a root key
MaxDepthTried == 3    \* the maxDepth arguments tried are 0..MaxDepthTried
MaxMessages == 3      \* broker messages handled in one run of Spec
MaxInputs == 2        \* requests and broker messages handled in one run of BridgeSpec
MaxClock == 1         \* Date.now() ranges over 0..MaxClock

-----------------------------------------------------------------------------
(* JavaScript values.  Every value is a record of the same shape:          *)
(*   t     "undefined" | "null" | "bool" | "num" | "str" | "arr" | "obj"   *)
(*   n     the number (t = "num"), 1/0 for true/false (t = "bool")         *)
(*   s     the text (t = "str")                                            *)
(*   kids  the own properties <<key, value>> in property order; an array   *)
(*         has the keys "0", "1", ...                                      *)
(* A number is an integer [k |-> "int", v |-> i], a number with one        *)
(* decimal digit [k |-> "frac", v |-> t] (t tenths, t not a multiple of    *)
(* ten) or NaN, [k |-> "nan", v |-> 0].                                    *)

IntNum(i) == [k |-> "int", v |-> i]
Frac(t) == [k |-> "frac", v |-> t]
NaN == [k |-> "nan", v |-> 0]

Value(t, n, s, kids) == [t |-> t, n |-> n, s |-> s, kids |-> kids]

JUndefined == Value("undefined", IntNum(0), "", <<>>)
JNull == Value("null", IntNum(0), "", <<>>)
JBool(b) == Value("bool", IntNum(IF b THEN 1 ELSE 0), "", <<>>)
JNum(i) == Value("num", IntNum(i), "", <<>>)
JFrac(t) == Value("num", Frac(t), "", <<>>)
JStr(s) == Value("str", IntNum(0), s, <<>>)
JObj(kids) == Value("obj", IntNum(0), "", kids)
JArr(items) ==
    Value("arr", IntNum(0), "", [i \in 1..Len(items) |-> <<ToString(i - 1), items[i]>>])

\* typeof v === 'object' (true of null, of arrays and of objects)
TypeofObject(v) == v.t \in {"null", "arr", "obj"}

\* v == null (true of null and of undefined)
IsNullish(v) == v.t \in {"null", "undefined"}

HasKey(v, key) == \E i \in 1..Len(v.kids) : v.kids[i][1] = key

\* v[key] of a value that is neither null nor undefined: undefined when v
\* has no such own property (always so for a number, a boolean; the model's
\* strings are never indexed by "0")
Get(v, key) ==
    IF HasKey(v, key)
    THEN v.kids[CHOOSE i \in 1..Len(v.kids) : v.kids[i][1] = key][2]
    ELSE JUndefined

-----------------------------------------------------------------------------
(* Property order.  An object enumerates its integer-like keys first, in   *)
(* ascending numeric order, then its other keys in insertion order         *)
(* (for-in, JSON.stringify and Object.keys all use this order).            *)

MaxIndexKey == 9

IsIndexKey(key) == \E i \in 0..MaxIndexKey : ToString(i) = key

RECURSIVE IndexKids(_, _)
IndexKids(kids, i) ==
    IF i > MaxIndexKey THEN <<>>
    ELSE SelectSeq(kids, LAMBDA kv : kv[1] = ToString(i)) \o IndexKids(kids, i + 1)

OwnPropertyOrder(kids) ==
    IndexKids(kids, 0) \o SelectSeq(kids, LAMBDA kv : ~IsIndexKey(kv[1]))

-----------------------------------------------------------------------------
(* JSON.stringify and JSON.parse.                                          *)

\* JSON.stringify(v): members are written in the order of v.kids; a
\* property whose value is undefined is left out of an object and written
\* as null in an array; NaN is written as null.
RECURSIVE JSONstringify(_)
RECURSIVE Members(_, _, _)
Members(kids, i, isObj) ==
    IF i > Len(kids) THEN ""
    ELSE (IF i > 1 THEN "," ELSE "")
         \o (IF isObj THEN "\"" \o kids[i][1] \o "\":" ELSE "")
         \o JSONstringify(kids[i][2])
         \o Members(kids, i + 1, isObj)

JSONstringify(v) ==
    CASE v.t = "null" -> "null"
      [] v.t = "undefined" -> "null"
      [] v.t = "bool" -> IF v.n.v = 1 THEN "true" ELSE "false"
      [] v.t = "num" ->
            CASE v.n.k = "int" -> ToString(v.n.v)
              [] v.n.k = "frac" -> ToString(v.n.v \div 10) \o "." \o ToString(v.n.v % 10)
              [] OTHER -> "null"
      [] v.t = "str" -> "\"" \o v.s \o "\""
      [] v.t = "arr" -> "[" \o Members(v.kids, 1, FALSE) \o "]"
      [] v.t = "obj" ->
            "{" \o Members(SelectSeq(v.kids, LAMBDA kv : kv[2].t # "undefined"), 1, TRUE)
                \o "}"

\* The object JSON.parse builds from a document: each object's properties
\* are created in the order the text declares them, so the object holds
\* them in property order (integer-like keys first).
RECURSIVE Structured(_)
Structured(d) ==
    LET kids == [i \in 1..Len(d.kids) |-> <<d.kids[i][1], Structured(d.kids[i][2])>>]
    IN  Value(d.t, d.n, d.s, IF d.t = "obj" THEN OwnPropertyOrder(kids) ELSE kids)

-----------------------------------------------------------------------------
(* ticket-utils.js: findTicketId.                                          *)

\* key.toLowerCase(), on the keys the documents of the model use
ToLowerCase(key) ==
    CASE key = "ticketId" -> "ticketid"
      [] key = "TicketID" -> "ticketid"
      [] key = "TICKET_ID" -> "ticket_id"
      [] key = "Ticket" -> "ticket"
      [] key = "ticketData" -> "ticketdata"
      [] OTHER -> key

\* Number(s) of a string, on the strings the documents of the model use:
\* a decimal literal converts to its value, the empty string to 0, any
\* other text to NaN.
ToNumber(s) ==
    CASE s = "" -> IntNum(0)
      [] s = "1.5" -> Frac(15)
      [] \E i \in 0..MaxIndexKey : ToString(i) = s ->
            IntNum(CHOOSE i \in 0..MaxIndexKey : ToString(i) = s)
      [] s = "42" -> IntNum(42)
      [] OTHER -> NaN

\* typeof val === 'number' || (typeof val === 'string' && !isNaN(val))
IsNumeric(val) ==
    \/ val.t = "num"
    \/ val.t = "str" /\ ToNumber(val.s).k # "nan"

\* Number(val) of a value that IsNumeric
NumberOf(val) == IF val.t = "num" THEN val.n ELSE ToNumber(val.s)

\* The outcomes of a search step: no result yet, return null, return an id,
\* or a TypeError thrown by a property access on null or undefined.
Continue == [k |-> "continue", id |-> IntNum(0)]
Absent == [k |-> "null", id |-> IntNum(0)]
Thrown == [k |-> "throw", id |-> IntNum(0)]
Id(n) == [k |-> "id", id |-> n]

\* Lines 26-31: the direct ticketId / ticket_id pattern on one key.
DirectMatch(lowerKey, val) ==
    IF lowerKey \in {"ticketid", "ticket_id"} /\ IsNumeric(val)
    THEN Id(NumberOf(val))
    ELSE Continue

\* The nested pattern reading ticketObj.ticketId instead of ticketObj.id
TicketMatchWrongField(lowerKey, val) ==
    IF lowerKey = "ticket" /\ TypeofObject(val)
    THEN IF val.t = "null" THEN Thrown
         ELSE IF ~IsNullish(Get(val, "ticketId")) /\ IsNumeric(Get(val, "ticketId"))
              THEN Id(NumberOf(Get(val, "ticketId")))
              ELSE Continue
    ELSE Continue

\* Lines 34-42: the nested ticket.id pattern on one key.  ticketObj.id of a
\* null ticketObj throws.
TicketMatch(lowerKey, val) ==
    IF lowerKey = "ticket" /\ TypeofObject(val)
    THEN IF val.t = "null" THEN Thrown
         ELSE IF ~IsNullish(Get(val, "id")) /\ IsNumeric(Get(val, "id"))
              THEN Id(NumberOf(Get(val, "id")))
              ELSE Continue
    ELSE Continue

\* Lines 44-52: the ticketdata[0].id pattern on one key.  ticketObj[0] of a
\* null ticketObj throws, and so does .id of an undefined or null first
\* element.
TicketdataMatch(lowerKey, val) ==
    IF lowerKey = "ticketdata" /\ TypeofObject(val)
    THEN IF val.t = "null" THEN Thrown
         ELSE IF IsNullish(Get(val, "0")) THEN Thrown
         ELSE IF ~IsNullish(Get(Get(val, "0"), "id")) /\ IsNumeric(Get(Get(val, "0"), "id"))
              THEN Id(NumberOf(Get(Get(val, "0"), "id")))
              ELSE Continue
    ELSE Continue

\* Lines 23-52: the body of the first loop for one key, its three tests in
\* the order of the code.
CheckKey(key, val) ==
    LET lowerKey == ToLowerCase(key)
        direct == DirectMatch(lowerKey, val)
        ticket == TicketMatch(lowerKey, val)
    IN  IF direct.k # "continue" THEN direct
        ELSE IF ticket.k # "continue" THEN ticket
        ELSE TicketdataMatch(lowerKey, val)

\* Lines 22-53: the first loop, from the i-th key on, in for-in order.
RECURSIVE ScanKeys(_, _)
ScanKeys(kids, i) ==
    IF i > Len(kids) THEN Continue
    ELSE LET r == CheckKey(kids[i][1], kids[i][2])
         IN  IF r.k # "continue" THEN r ELSE ScanKeys(kids, i + 1)

\* The depth test with the bound off by one (depth >= maxDepth)
DepthExceededOffByOne(depth, maxD) == depth >= maxD

\* Line 16: depth > maxDepth
DepthExceeded(depth, maxD) == depth > maxD

RECURSIVE findTicketId(_, _, _)
RECURSIVE Descend(_, _, _, _)

\* Lines 56-61: the second loop, from the i-th key on.
Descend(kids, i, depth, maxD) ==
    IF i > Len(kids) THEN Absent
    ELSE IF TypeofObject(kids[i][2])
         THEN LET r == findTicketId(kids[i][2], depth + 1, maxD)
              IN  IF r.k # "null" THEN r ELSE Descend(kids, i + 1, depth, maxD)
         ELSE Descend(kids, i + 1, depth, maxD)

findTicketId(obj, depth, maxD) ==
    IF DepthExceeded(depth, maxD) \/ IsNullish(obj) THEN Absent
    ELSE IF ~TypeofObject(obj) THEN Absent
    ELSE LET r == ScanKeys(obj.kids, 1)
         IN  IF r.k # "continue" THEN r ELSE Descend(obj.kids, 1, depth, maxD)

\* The default maxDepth of findTicketId(obj)
DefaultMaxDepth == 10

-----------------------------------------------------------------------------
(* ticket-utils.js: getTicketColor.                                        *)

\* a % b of JavaScript on integers: the result has the sign of a
JsRem(a, b) == IF a >= 0 THEN a % b ELSE -((-a) % b)

NeutralColor == [k |-> "hex", hue |-> 0, saturation |-> 0, lightness |-> 0, text |-> "#6b7280"]

\* golden * 360 in thousandths of a degree (0.618033988749895 * 360 = 222.492...)
GoldenStep == 222492

\* a number in tenths
Tenths(n) == IF n.k = "frac" THEN n.v ELSE 10 * n.v

\* getTicketColor with line 75 written `if (!ticketId)`
getTicketColorFalsy(ticketId) ==
    IF ticketId.k # "id" \/ Tenths(ticketId.id) = 0 THEN NeutralColor
    ELSE [k |-> "hsl",
          hue |-> JsRem((Tenths(ticketId.id) * GoldenStep) \div 10, 360000),
          saturation |-> 650 + JsRem(Tenths(ticketId.id), 200),
          lightness |-> 450 + JsRem(Tenths(ticketId.id), 150),
          text |-> "hsl"]

\* ticketId is an outcome of findTicketId: Absent or Id(n).  The hue is kept
\* in thousandths of a degree, the saturation and the lightness in tenths of
\* a percent (an id may have a decimal digit).
getTicketColor(ticketId) ==
    IF ticketId.k # "id" THEN NeutralColor
    ELSE [k |-> "hsl",
          hue |-> JsRem((Tenths(ticketId.id) * GoldenStep) \div 10, 360000),
          saturation |-> 650 + JsRem(Tenths(ticketId.id), 200),
          lightness |-> 450 + JsRem(Tenths(ticketId.id), 150),
          text |-> "hsl"]

-----------------------------------------------------------------------------
(* The documents of ResolverSpec: JSON payloads as their producer wrote    *)
(* them, keys in declared order.                                           *)

Field(key, val) == <<key, val>>

\* ticket fields as they appear directly in an object
DirectEntries ==
    { Field("ticketId", JNum(1)),
      Field("TICKET_ID", JStr("4")),
      Field("ticketId", JStr("abc")),
      Field("ticketId", JBool(TRUE)),
      Field("ticketId", JFrac(15)),
      Field("ticketId", JNum(-3)),
      Field("TICKET_ID", JStr("1.5")),
      Field("ticket", JObj(<<Field("id", JNum(2))>>)),
      Field("ticket", JObj(<<Field("id", JStr("x"))>>)),
      Field("ticket", JNull),
      Field("ticketdata", JArr(<<JObj(<<Field("id", JNum(3))>>)>>)),
      Field("ticketdata", JArr(<<>>)),
      Field("ticketdata", JArr(<<JNull>>)),
      Field("ticketdata", JNull) }

\* ticket fields that are wrapped one level below a root key
InnerEntries ==
    { Field("ticketId", JNum(5)),
      Field("ticketId", JNum(6)),
      Field("ticketdata", JArr(<<>>)) }

\* ticket fields that are wrapped deeper
DeepEntries ==
    { Field("ticketId", JNum(5)),
      Field("ticketdata", JArr(<<>>)) }

\* an object holding `entry`, j levels below the root: objects and arrays
\* alternate on the way down
RECURSIVE Wrap(_, _)
Wrap(j, entry) ==
    IF j <= 1 THEN JObj(<<entry>>)
    ELSE IF j % 2 = 0 THEN JArr(<<Wrap(j - 1, entry)>>)
    ELSE JObj(<<Field("n", Wrap(j - 1, entry))>>)

WrapKeys == {"a", "1"}

\* a child that holds an empty 'ticketdata' before its ticketId
MixedChild ==
    Field("a", JObj(<<Field("ticketdata", JArr(<<>>)), Field("ticketId", JNum(5))>>))

WrappedEntries ==
    { Field(key, Wrap(1, e)) : key \in WrapKeys, e \in InnerEntries }
    \cup { Field("1", Wrap(j, e)) : j \in 2..MaxNest, e \in DeepEntries }
    \cup { MixedChild }

Entries == DirectEntries \cup WrappedEntries

DistinctKeys(kids) ==
    \A i, j \in 1..Len(kids) : i # j => kids[i][1] # kids[j][1]

ObjectDocs ==
    UNION { { JObj(kids) : kids \in { f \in [1..n -> Entries] : DistinctKeys(f) } }
            : n \in 1..MaxKeys }

OtherDocs ==
    { JNull, JNum(7), JStr("7"), JObj(<<>>),
      JArr(<<JObj(<<Field("ticketId", JNum(1))>>)>>) }

Docs == ObjectDocs \cup OtherDocs

-----------------------------------------------------------------------------
(* The relay's initial state (index.js after start-up).                    *)

Viewers == {"v1", "v2"}

NoColor == [k |-> "none", hue |-> 0, saturation |-> 0, lightness |-> 0, text |-> ""]

RelayInit ==
    /\ running = TRUE
    /\ escaped = "none"
    /\ clock = 0
    /\ socket = [v \in Viewers |-> "none"]
    /\ arrived = <<>>
    /\ emitted = <<>>
    /\ inbox = [v \in Viewers |-> <<>>]
    /\ requests = <<>>
    /\ pending = {}
    /\ published = <<>>
    /\ results = [v \in Viewers |-> <<>>]
    /\ incoming = <<>>

-----------------------------------------------------------------------------
(* ResolverSpec: findTicketId and getTicketColor applied to a document.    *)

DepthsTried == (0..MaxDepthTried) \cup {DefaultMaxDepth}

ResolverInit ==
    /\ RelayInit
    /\ doc \in Docs
    /\ maxDepth = -1
    /\ found = Continue
    /\ color = NoColor
    /\ calls = <<>>

\* findTicketId(JSON.parse(text), 0, m), called once on the document
Resolve(m) ==
    /\ maxDepth = -1
    /\ found' = findTicketId(Structured(doc), 0, m)
    /\ maxDepth' = m
    /\ color' = NoColor
    /\ UNCHANGED <<doc, calls, incoming, relayVars>>

\* getTicketColor(id) of the id findTicketId returned
Colorize ==
    /\ found.k \in {"null", "id"}
    /\ color = NoColor
    /\ color' = getTicketColor(found)
    /\ UNCHANGED <<doc, maxDepth, found, calls, incoming, relayVars>>

ResolverNext ==
    \/ \E m \in DepthsTried : Resolve(m)
    \/ Colorize

ResolverSpec == ResolverInit /\ [][ResolverNext]_vars

-----------------------------------------------------------------------------
(* ColorSpec: a sequence of getTicketColor calls.                          *)

MaxCalls == 3

\* the arguments: no id, and ids findTicketId returns
ColorIds ==
    { Absent, Id(IntNum(0)), Id(IntNum(1)), Id(IntNum(-3)), Id(IntNum(42)), Id(Frac(15)) }

ColorInit ==
    /\ RelayInit
    /\ doc = JNull
    /\ maxDepth = -1
    /\ found = Continue
    /\ color = NoColor
    /\ calls = <<>>

\* one call getTicketColor(ticketId)
Call(ticketId) ==
    /\ Len(calls) < MaxCalls
    /\ calls' = Append(calls, [id |-> ticketId, color |-> getTicketColor(ticketId)])
    /\ UNCHANGED <<doc, maxDepth, found, color, incoming, relayVars>>

ColorNext == \E ticketId \in ColorIds : Call(ticketId)

ColorSpec == ColorInit /\ [][ColorNext]_vars

-----------------------------------------------------------------------------
(* Claims about findTicketId (ResolverSpec).                               *)

Called == maxDepth >= 0

\* The value findTicketId works on
Parsed == Structured(doc)

IsTicketKey(key) == ToLowerCase(key) \in {"ticketid", "ticket_id", "ticket", "ticketdata"}

\* The ticket fields of a value, each with the depth of the node that holds
\* it (the root is at depth 0): <<depth, key, value>>
RECURSIVE TicketFields(_, _)
TicketFields(v, depth) ==
    { <<depth, v.kids[i][1], v.kids[i][2]>> : i \in { j \in 1..Len(v.kids) : IsTicketKey(v.kids[j][1]) } }
    \cup UNION { TicketFields(v.kids[i][2], depth + 1) : i \in 1..Len(v.kids) }

\* C8 (as claimed): when the root object holds a direct ticketId / ticket_id
\* key with a number and a 'ticket' key whose object holds a different
\* number as id, findTicketId returns the direct value, whatever the order
\* of the two keys.  (Stated for the objects that hold these two keys only.)
C8_DirectFieldWins ==
    \A i, j \in 1..Len(doc.kids) :
        LET d == doc.kids[i]
            t == doc.kids[j]
        IN  ( /\ Called
              /\ doc.t = "obj"
              /\ ToLowerCase(d[1]) \in {"ticketid", "ticket_id"} /\ d[2].t = "num"
              /\ ToLowerCase(t[1]) = "ticket" /\ t[2].t = "obj"
              /\ Get(t[2], "id").t = "num" /\ Get(t[2], "id").n # d[2].n
              /\ Len(doc.kids) = 2 )
            => found = Id(d[2].n)

\* C9 (as claimed): a value whose only ticket field lies deeper than
\* maxDepth resolves to absent, and a match found with bound m is found with
\* the same id for every greater bound.
C9_MonotonicSameId ==
    LET fields == TicketFields(Parsed, 0)
    IN  Called =>
          /\ (fields # {} /\ \A x \in fields : x[1] > maxDepth) => found = Absent
          /\ found.k = "id" =>
                \A m \in DepthsTried : m > maxDepth => findTicketId(Parsed, 0, m) = found

\* C9 (amended): (a) when every ticket field of the value lies deeper than
\* maxDepth the result is absent, without an error; (b) when the value has
\* a single ticket field and maxDepth covers its depth the result is that
\* field's match; (c) a match found with bound m is never lost with a
\* greater bound: the search then returns an id or raises at a ticket /
\* ticketdata node the greater bound reaches, and it returns the same id
\* when the value has a single ticket field.
C9_DepthBound ==
    LET fields == TicketFields(Parsed, 0)
        single == Cardinality(fields) = 1
        f == CHOOSE x \in fields : TRUE
        match == CheckKey(f[2], f[3])
    IN  Called =>
          /\ (fields # {} /\ \A x \in fields : x[1] > maxDepth) => found = Absent
          /\ (single /\ f[1] <= maxDepth) =>
                found = (IF match.k = "continue" THEN Absent ELSE match)
          /\ found.k = "id" =>
                \A m \in DepthsTried : m > maxDepth =>
                    /\ findTicketId(Parsed, 0, m).k \in {"id", "throw"}
                    /\ single => findTicketId(Parsed, 0, m) = found

\* C9 witness: the only ticket field lies two levels down, the search with
\* maxDepth 1 returned absent and the search with maxDepth 2 returns its id.
C9_Witness ==
    /\ maxDepth = 1
    /\ found = Absent
    /\ TicketFields(Parsed, 0) = { <<2, "ticketId", JNum(5)>> }
    /\ findTicketId(Parsed, 0, 2) = Id(IntNum(5))

\* C10 (as claimed): findTicketId never fails: every call returns absent or
\* an id, also on a 'ticketdata' that is empty, null or starts with null and
\* on a 'ticket' that is null.
C10_NeverFails == Called => found.k \in {"null", "id"}

\* the ids the patterns of lines 26-52 give on the keys of a node itself
DirectMatches(node) ==
    { c \in { CheckKey(node.kids[i][1], node.kids[i][2]) : i \in 1..Len(node.kids) } :
        c.k = "id" }

\* the ticket fields within the reach of the search that hold an id
ValidFields(m) ==
    { f \in TicketFields(Parsed, 0) : f[1] <= m /\ CheckKey(f[2], f[3]).k = "id" }

\* C16 (as claimed): when the root object, the first node visited, has a
\* direct match among its own keys, the result is a direct match of the
\* root: nothing found in a nested child or in a later node takes its place.
C16_DirectMatchOfNode ==
    (Called /\ DirectMatches(Parsed) # {}) => found \in DirectMatches(Parsed)

\* C17 (as claimed): when the root object has no ticket key of its own, the
\* result is that of the depth-first search carried out over the children
\* in the order the document declares them, also when keys look like
\* integers.
C17_DocumentOrder ==
    (Called /\ \A i \in 1..Len(doc.kids) : ~IsTicketKey(doc.kids[i][1])) =>
        found = findTicketId(doc, 0, maxDepth)

\* C20 (as claimed): when the root object has a key that matches a ticket
\* pattern by name with a value that is not numeric (ticketId: "abc",
\* ticketId: true, ticket: {id: "x"}), and a ticket field that holds an id
\* lies elsewhere within the depth bound, the search returns an id.
C20_SearchContinues ==
    ( /\ Called
      /\ \E i \in 1..Len(Parsed.kids) :
            /\ IsTicketKey(Parsed.kids[i][1])
            /\ CheckKey(Parsed.kids[i][1], Parsed.kids[i][2]) = Continue
      /\ ValidFields(maxDepth) # {} )
    => found.k = "id"

\* C11 (as claimed): whatever the document, an id findTicketId returns is an
\* integer: never a number with a fractional part, never NaN, whether the
\* matched field holds a number or a numeric-looking string.
C11_IntegerOrAbsent == (Called /\ found.k = "id") => found.id.k = "int"

-----------------------------------------------------------------------------
(* Claims about getTicketColor (ResolverSpec, ColorSpec).                  *)

\* C12 (as claimed): for every integer id findTicketId returns, positive,
\* zero or negative, getTicketColor gives a saturation within 65..85 percent
\* and a lightness within 45..60 percent.
C12_ColorRanges ==
    (found.k = "id" /\ found.id.k = "int" /\ color.k = "hsl") =>
        /\ color.saturation >= 650 /\ color.saturation <= 850
        /\ color.lightness >= 450 /\ color.lightness <= 600

-----------------------------------------------------------------------------
(* Broker messages.  A Buffer is known by its length, its first two bytes, *)
(* the text it holds and, when it is a gzip member, whether the member is  *)
(* intact:                                                                 *)
(*   len, b0, b1   message.length, message[0], message[1] (-1: no such byte)*)
(*   gz            "none" (not gzip), "ok" or "corrupt"                    *)
(*   text          the UTF-8 text of the bytes, for a gzip member the text *)
(*                 it compresses                                           *)

\* the bytes of `text` in UTF-8 (ASCII texts: one byte per character);
\* b0 and b1 are the codes of the first two characters
Utf8(text, b0, b1) == [len |-> Len(text), b0 |-> b0, b1 |-> b1, gz |-> "none", text |-> text]

\* gzip of the bytes of `text`: the magic 0x1f 0x8b, then header, deflate
\* stream and trailer (20 bytes more than a short text)
Gzip(text) == [len |-> Len(text) + 20, b0 |-> 31, b1 |-> 139, gz |-> "ok", text |-> text]

\* a gzip member cut after its tenth byte
TruncatedGzip == [len |-> 10, b0 |-> 31, b1 |-> 139, gz |-> "corrupt", text |-> ""]

\* the single byte 0x1f
OneByte == [len |-> 1, b0 |-> 31, b1 |-> -1, gz |-> "none", text |-> "\\u001f"]

\* The payloads producers publish, keys in declared order
TicketDoc == JObj(<<Field("ticket", JObj(<<Field("id", JNum(42))>>))>>)
DirectDoc == JObj(<<Field("b", JStr("x")), Field("1", JObj(<<Field("ticketId", JNum(1))>>))>>)
PlainDoc == JObj(<<Field("a", JNum(1))>>)

PayloadDocs == {TicketDoc, DirectDoc, PlainDoc}

\* each payload with its JSON text and the value JSON.parse builds from it
PayloadTexts ==
    { [text |-> JSONstringify(d), value |-> Structured(d)] : d \in PayloadDocs }

\* JSON.parse(text): the structured value of the document whose text it is,
\* or a SyntaxError when the text is no document
JSONparse(text) ==
    IF \E p \in PayloadTexts : p.text = text
    THEN [ok |-> TRUE, value |-> (CHOOSE p \in PayloadTexts : p.text = text).value]
    ELSE [ok |-> FALSE, value |-> JUndefined]

Msg(topic, buf) == [topic |-> topic, message |-> buf]

\* first bytes of the payload texts: '{' is 123 and '"' is 34
Messages ==
    { Msg("orders/42", Gzip(JSONstringify(TicketDoc))),
      Msg("uatv2/restaurant/7096", Utf8(JSONstringify(DirectDoc), 123, 34)),
      Msg("uatv2/restaurant/7096", Gzip("{bad")),
      Msg("uatv2/restaurant/7096", Utf8("{bad", 123, 98)),
      Msg("uatv2/restaurant/7096", TruncatedGzip),
      Msg("uatv2/restaurant/7096", OneByte) }

BridgeMessages == { Msg("orders/42", Gzip(JSONstringify(TicketDoc))) }

-----------------------------------------------------------------------------
(* index.js: the 'message' handler.                                        *)

\* Lines 131-132
isGzip(message) == message.len >= 2 /\ message.b0 = 31 /\ message.b1 = 139

\* zlib.gunzipSync(message).toString("utf8"), or the error gunzipSync throws
\* on bytes that are no intact gzip member
Gunzip(message) ==
    IF message.gz = "ok" THEN [ok |-> TRUE, text |-> message.text]
    ELSE [ok |-> FALSE, text |-> ""]

\* message.toString("utf8"): the text of the bytes; the bytes of a gzip
\* member read as text are no JSON
Utf8ToString(message) == IF message.gz = "none" THEN message.text ELSE "\\u001f\\ufffd"

\* Lines 136-140: jsonString, or the error thrown
Decode(message) ==
    IF isGzip(message) THEN Gunzip(message)
    ELSE [ok |-> TRUE, text |-> Utf8ToString(message)]

\* whether lines 131-142 complete without throwing
Decodes(message) == Decode(message).ok /\ JSONparse(Decode(message).text).ok

\* Lines 151-159 with size taken from the decoded text
RelayEventTextSize(src, topic, message, now) ==
    [ src |-> src,
      fields |-> {"id", "topic", "size", "isCompressed", "time", "raw", "parsed"},
      id |-> now,
      topic |-> topic,
      size |-> Len(Decode(message).text),
      isCompressed |-> isGzip(message),
      time |-> now,
      raw |-> Decode(message).text,
      parsed |-> JSONparse(Decode(message).text).value ]

\* Lines 151-159: the record given to io.emit.  src is not a field of the
\* record: it is the position of the source message in `arrived`.
RelayEvent(src, topic, message, now) ==
    [ src |-> src,
      fields |-> {"id", "topic", "size", "isCompressed", "time", "raw", "parsed"},
      id |-> now,
      topic |-> topic,
      size |-> message.len,
      isCompressed |-> isGzip(message),
      time |-> now,
      raw |-> Decode(message).text,
      parsed |-> JSONparse(Decode(message).text).value ]

\* io.emit with the event put in front of what a viewer already received
ioEmitPrepend(boxes, event) ==
    [v \in Viewers |-> IF socket[v] = "open" THEN <<event>> \o boxes[v] ELSE boxes[v]]

\* io.emit that also reaches the sockets io no longer holds
ioEmitEveryone(boxes, event) == [v \in Viewers |-> Append(boxes[v], event)]

\* io.emit(name, event): the event goes to every connected socket
ioEmit(boxes, event) ==
    [v \in Viewers |-> IF socket[v] = "open" THEN Append(boxes[v], event) ELSE boxes[v]]

\* The handler on one message; where the message comes from (`incoming`) is
\* left to the specification.  It has no try/catch: an error thrown by
\* gunzipSync or JSON.parse leaves the handler, nothing in index.js handles
\* it ('uncaughtException' has no listener), and the process ends.
OnMessage(m) ==
    /\ running
    /\ arrived' = Append(arrived, m)
    /\ IF Decodes(m.message)
       THEN /\ emitted' = Append(emitted, RelayEvent(Len(arrived) + 1, m.topic, m.message, clock))
            /\ inbox' = ioEmit(inbox, RelayEvent(Len(arrived) + 1, m.topic, m.message, clock))
            /\ UNCHANGED <<running, escaped>>
       ELSE /\ running' = FALSE
            /\ escaped' = "message"
            /\ UNCHANGED <<emitted, inbox>>
    /\ UNCHANGED <<clock, socket, requests, pending, published, results, resolverVars>>

\* Date.now() advances
Tick ==
    /\ running
    /\ clock < MaxClock
    /\ clock' = clock + 1
    /\ UNCHANGED <<running, escaped, socket, arrived, emitted, inbox, requests, pending,
                   published, results, resolverVars, incoming>>

\* io.on("connection"): a viewer connects; its socket gets the
\* 'republish-mqtt' listener
Connect(v) ==
    /\ running
    /\ socket[v] = "none"
    /\ socket' = [socket EXCEPT ![v] = "open"]
    /\ UNCHANGED <<running, escaped, clock, arrived, emitted, inbox, requests, pending,
                   published, results, resolverVars, incoming>>

\* a viewer disconnects: io no longer holds its socket
Disconnect(v) ==
    /\ running
    /\ socket[v] = "open"
    /\ socket' = [socket EXCEPT ![v] = "closed"]
    /\ UNCHANGED <<running, escaped, clock, arrived, emitted, inbox, requests, pending,
                   published, results, resolverVars, incoming>>

RelayStart ==
    /\ RelayInit
    /\ doc = JNull
    /\ maxDepth = -1
    /\ found = Continue
    /\ color = NoColor
    /\ calls = <<>>

Init == RelayStart

Next ==
    \/ \E m \in Messages : Len(arrived) < MaxMessages /\ OnMessage(m) /\ UNCHANGED incoming
    \/ Tick
    \/ \E v \in Viewers : Connect(v)
    \/ \E v \in Viewers : Disconnect(v)

Spec == Init /\ [][Next]_vars

-----------------------------------------------------------------------------
(* index.js: the republish bridge.                                         *)

\* The argument a viewer gives to 'republish-mqtt': none at all, or an
\* object whose topic and payload are values (undefined when absent)
NoArgument == [present |-> FALSE, topic |-> JUndefined, payload |-> JUndefined]
Arg(topic, payload) == [present |-> TRUE, topic |-> topic, payload |-> payload]

Args ==
    { NoArgument,
      Arg(JStr(""), JStr("x")),
      Arg(JUndefined, JStr("x")),
      Arg(JStr("t"), JStr("")),
      Arg(JStr("t"), JUndefined),
      Arg(JStr("t"), JStr("x")),
      Arg(JStr("orders/42"), Structured(PlainDoc)) }

\* !v
Falsy(v) ==
    \/ v.t \in {"undefined", "null"}
    \/ v.t = "bool" /\ v.n.v = 0
    \/ v.t = "num" /\ (v.n.k = "nan" \/ v.n.v = 0)
    \/ v.t = "str" /\ v.s = ""

\* Line 167 with the payload never tested
InvalidTopicOnly(arg) == Falsy(arg.topic)

\* Line 167: !topic || !payload
Invalid(arg) == Falsy(arg.topic) \/ Falsy(arg.payload)

\* Lines 175-176: typeof payload === "string" ? payload : JSON.stringify(payload)
MessageOf(payload) == IF payload.t = "str" THEN payload.s ELSE JSONstringify(payload)

\* A 'republish-result' record.  req is not a field of the record: it is
\* the position in `requests` of the request it answers.
Failure(req, error) ==
    [req |-> req, fields |-> {"success", "error"}, success |-> FALSE, topic |-> "", error |-> error]
Success(req, topic) ==
    [req |-> req, fields |-> {"success", "topic"}, success |-> TRUE, topic |-> topic, error |-> ""]

\* socket.emit("republish-result", result) on the socket of viewer v
socketEmit(v, result) == [results EXCEPT ![v] = Append(results[v], result)]

\* Lines 179-191 with the branches exchanged
AckResultInverted(req, topic, err) ==
    IF err = "" THEN Failure(req, err) ELSE Success(req, topic)

\* Lines 179-191: the result the publish callback emits; err = "" stands
\* for a callback called without an error
AckResult(req, topic, err) ==
    IF err # "" THEN Failure(req, err) ELSE Success(req, topic)

\* The 'republish-mqtt' listener of viewer v's socket on one request.
\* A request is kept as [viewer, arg, broker]; broker is not program state:
\* it is what the broker client answered, "none" before it did or when
\* publish never took the message, "accepted", or the reason of its error.
\* The parameter ({ topic, payload }) is destructured before the try block
\* is entered: without an argument that throws a TypeError which leaves the
\* listener, and the process ends as in OnMessage.  `throws` is whether
\* client.publish throws instead of taking the message.
OnRepublish(v, arg, throws) ==
    LET req == Len(requests) + 1
        topic == arg.topic.s
        message == MessageOf(arg.payload)
    IN  /\ running
        /\ socket[v] = "open"
        /\ requests' = Append(requests, [viewer |-> v, arg |-> arg, broker |-> "none"])
        /\ IF ~arg.present
           THEN /\ running' = FALSE
                /\ escaped' = "republish-mqtt"
                /\ UNCHANGED <<results, published, pending>>
           ELSE IF Invalid(arg)
           THEN /\ results' = socketEmit(v, Failure(req, "Invalid topic or payload"))
                /\ UNCHANGED <<running, escaped, published, pending>>
           ELSE /\ published' = Append(published, [req |-> req, topic |-> topic, message |-> message])
                /\ IF throws
                   THEN /\ results' = socketEmit(v, Failure(req, "publish threw"))
                        /\ UNCHANGED pending
                   ELSE /\ pending' = pending \cup {req}
                        /\ UNCHANGED results
                /\ UNCHANGED <<running, escaped>>
        /\ UNCHANGED <<clock, socket, arrived, emitted, inbox, resolverVars, incoming>>

BrokerErrors == {"Connection closed"}

\* The broker client calls the callback of a publish (lines 178-192) with
\* err, after the listener has returned
OnAck(req, err) ==
    /\ running
    /\ req \in pending
    /\ pending' = pending \ {req}
    /\ results' = socketEmit(requests[req].viewer,
                             AckResult(req, requests[req].arg.topic.s, err))
    /\ requests' = [requests EXCEPT ![req].broker = IF err = "" THEN "accepted" ELSE err]
    /\ UNCHANGED <<running, escaped, clock, socket, arrived, emitted, inbox,
                   published, resolverVars, incoming>>

BridgeNext ==
    \/ \E v \in Viewers, arg \in Args, throws \in BOOLEAN :
          Len(requests) + Len(arrived) < MaxInputs /\ OnRepublish(v, arg, throws)
    \/ \E req \in pending, err \in BrokerErrors \cup {""} : OnAck(req, err)
    \/ \E m \in BridgeMessages :
          Len(requests) + Len(arrived) < MaxInputs /\ OnMessage(m) /\ UNCHANGED incoming
    \/ \E v \in Viewers : Connect(v)
    \/ \E v \in Viewers : Disconnect(v)

BridgeSpec == Init /\ [][BridgeNext]_vars

-----------------------------------------------------------------------------
(* LiveSpec: ingestion with the broker stream made explicit.  The broker   *)
(* client reads packets off its connection (Receive) and the event loop    *)
(* hands them one by one, in order, to the 'message' handler (Dispatch);   *)
(* viewers connect, disconnect and republish meanwhile, at their own pace. *)

LiveMessages ==
    { Msg("orders/42", Gzip(JSONstringify(TicketDoc))),
      Msg("uatv2/restaurant/7096", Utf8("{bad", 123, 98)) }

LiveArgs == { Arg(JStr("t"), JStr("x")) }

\* a packet of the broker stream has been read and awaits its callback
Receive(m) ==
    /\ running
    /\ incoming' = Append(incoming, m)
    /\ UNCHANGED <<relayVars, resolverVars>>

\* the event loop calls the 'message' handler on the oldest packet
Dispatch ==
    /\ incoming # <<>>
    /\ OnMessage(Head(incoming))
    /\ incoming' = Tail(incoming)

LiveNext ==
    \/ \E m \in LiveMessages :
          Len(requests) + Len(arrived) + Len(incoming) < MaxInputs /\ Receive(m)
    \/ Dispatch
    \/ \E v \in Viewers, arg \in LiveArgs :
          Len(requests) + Len(arrived) + Len(incoming) < MaxInputs /\ OnRepublish(v, arg, FALSE)
    \/ \E req \in pending, err \in BrokerErrors \cup {""} : OnAck(req, err)
    \/ \E v \in Viewers : Connect(v)
    \/ \E v \in Viewers : Disconnect(v)

\* the event loop does not starve the handler of a packet that was read
LiveSpec == Init /\ [][LiveNext]_vars /\ WF_vars(Dispatch)

-----------------------------------------------------------------------------
(* Claims about the 'message' handler (Spec).                              *)

EventsOf(i) == SelectSeq(emitted, LAMBDA e : e.src = i)

\* C1 (as claimed): a message that fails gzip decompression or JSON parsing
\* produces no 'mqtt-event' and leaves the relay running, and every message
\* that decodes produces its 'mqtt-event'.
C1_DecodeFailureContained ==
    \A i \in 1..Len(arrived) :
        IF Decodes(arrived[i].message)
        THEN Len(EventsOf(i)) = 1
        ELSE Len(EventsOf(i)) = 0 /\ running /\ escaped = "none"

\* C6: every viewer receives the events in the order in which their source
\* messages were received from the broker.
C6_ArrivalOrder ==
    \A v \in Viewers : \A i, j \in 1..Len(inbox[v]) :
        i < j => inbox[v][i].src < inbox[v][j].src

\* C6 witness: a viewer has received the events of two messages.
C6_Witness ==
    \E v \in Viewers : Len(inbox[v]) >= 2 /\ inbox[v][1].src # inbox[v][2].src

IsTicketMessage(m) ==
    m = Msg("orders/42", Gzip("{\"ticket\":{\"id\":42}}"))

C14_BroadcastToAll ==
    /\ [](\A v \in Viewers : \A i \in 1..Len(inbox[v]) :
            /\ \E k \in 1..Len(emitted) : emitted[k] = inbox[v][i]
            /\ \A j \in 1..Len(inbox[v]) : inbox[v][j].src = inbox[v][i].src => j = i)
    /\ [][ IF arrived' # arrived /\ Decodes(arrived'[Len(arrived')].message)
           THEN /\ Len(emitted') = Len(emitted) + 1
                /\ SubSeq(emitted', 1, Len(emitted)) = emitted
                /\ emitted'[Len(emitted')].src = Len(arrived')
                /\ \A v \in Viewers :
                      inbox'[v] = IF socket[v] = "open"
                                  THEN Append(inbox[v], emitted'[Len(emitted')])
                                  ELSE inbox[v]
           ELSE emitted' = emitted /\ inbox' = inbox ]_vars

\* C14 witness: two viewers received the same first event; one of them has
\* disconnected since and the other one, still connected, received a later
\* event that the first one did not.
C14_Witness ==
    \E v, w \in Viewers :
        /\ socket[v] = "closed" /\ socket[w] = "open"
        /\ Len(inbox[v]) = 1 /\ Len(inbox[w]) = 2
        /\ inbox[v][1] = inbox[w][1]
        /\ inbox[w][2].src > inbox[v][1].src

\* C18: in every event broadcast, isCompressed is true exactly when the
\* source message has at least two bytes and starts with 0x1f 0x8b; raw is
\* then the text the gzip member compresses, and the text of the bytes
\* themselves otherwise; parsed is the parse of raw; size is the number of
\* bytes of the source message (for a gzip member not the length of raw).
C18_CompressionAndSize ==
    \A k \in 1..Len(emitted) :
        LET e == emitted[k]
            m == arrived[e.src].message
        IN  /\ e.isCompressed <=> (m.len >= 2 /\ m.b0 = 31 /\ m.b1 = 139)
            /\ e.size = m.len
            /\ e.raw = m.text
            /\ e.isCompressed => m.gz = "ok" /\ e.size = Len(e.raw) + 20
            /\ ~e.isCompressed => m.gz = "none" /\ e.size = Len(e.raw)
            /\ \E p \in PayloadTexts : p.text = e.raw /\ p.value = e.parsed

\* C18 witness: a gzip-compressed message and a plain one were broadcast,
\* the first with a size that is not the length of its decompressed text.
C18_Witness ==
    \E i, j \in 1..Len(emitted) :
        /\ emitted[i].isCompressed /\ emitted[i].size # Len(emitted[i].raw)
        /\ ~emitted[j].isCompressed /\ emitted[j].size = Len(emitted[j].raw)

\* C19 (as claimed): no two events broadcast carry the same id, and a later
\* event has a greater id than an earlier one, also when their messages
\* arrive within the same tick of the clock.
C19_DistinctIncreasingIds ==
    \A i, j \in 1..Len(emitted) : i < j => emitted[i].id < emitted[j].id

\* the broker messages received so far, in order of reception
Received == arrived \o incoming

\* C15 (as claimed): under fair scheduling of the broker stream every
\* well-formed message received is eventually broadcast, whatever the
\* viewers do and whatever republish requests await their acknowledgment.
C15_EventuallyBroadcast ==
    \A i \in 1..MaxInputs :
        (i <= Len(Received) /\ Decodes(Received[i].message)) ~> (Len(EventsOf(i)) = 1)

-----------------------------------------------------------------------------
(* Claims about the republish bridge (BridgeSpec).                         *)

\* the results emitted on the socket of viewer v for request req
ResultsFor(v, req) == SelectSeq(results[v], LAMBDA x : x.req = req)

CallsFor(req) == SelectSeq(published, LAMBDA c : c.req = req)

EmptyOrAbsent(v) == v = JUndefined \/ v = JStr("")

\* C2 (as claimed): no republish request lets a failure out of the
\* listener; a request that fails (no argument object, publish throwing)
\* is answered on its viewer's socket with success = false.
C2_FailureBecomesResult ==
    /\ escaped # "republish-mqtt"
    /\ \A req \in 1..Len(requests) :
          LET q == requests[req]
          IN  (~q.arg.present \/ (CallsFor(req) # <<>> /\ req \notin pending /\ q.broker = "none"))
              => /\ Len(ResultsFor(q.viewer, req)) = 1
                 /\ ~ResultsFor(q.viewer, req)[1].success

\* C3 (as claimed): each request produces exactly one 'republish-result',
\* emitted on the socket of the viewer that sent it and on no other: never
\* two, and one as soon as no acknowledgment is awaited for it.
C3_ExactlyOneResult ==
    \A req \in 1..Len(requests) :
        LET q == requests[req]
        IN  /\ \A v \in Viewers \ {q.viewer} : ResultsFor(v, req) = <<>>
            /\ Len(ResultsFor(q.viewer, req)) <= 1
            /\ req \notin pending => Len(ResultsFor(q.viewer, req)) = 1

====
